---- MODULE Spec2Model ----
(***************************************************************************)
(* Model of retirement_app.py, a Streamlit script.  Every user interaction *)
(* re-executes the script from its first line; st.session_state is the     *)
(* only state that survives a run.  One action is one whole script run.    *)
(*                                                                         *)
(* Amounts are whole rand held as integers.  Rates are held in tenths of   *)
(* a percent, so a rate r stands for the fraction r / RateDen.  A product  *)
(* amount * rate is rounded to the nearest rand: the script computes it in *)
(* double precision, whose rounding at these magnitudes is far finer, so   *)
(* the model is coarser than the script and never finer.                   *)
(***************************************************************************)
EXTENDS Integers, Sequences, FiniteSets, TLC

VARIABLES session_state, widgets, run, page_config_repeatable

vars == <<session_state, widgets, run, page_config_repeatable>>

----------------------------------------------------------------------------
(* Program constants and the values the widgets are sampled at.            *)

\* the year cap of both while loops
MaxYears == 50

\* slider percentages are divided by 100; the model holds tenths of a percent
RateDen == 1000

\* st.slider("Current Age", 25, 100, 45): the default and an age that no
\* sampled retirement age exceeds
CurrentAges == {45, 65}

\* st.slider("Retirement Age", 55, 100, 65)
RetirementAges == {60, 65}

\* st.number_input("Total Investment (R)", value=5000000): an int with no
\* min_value, so zero and negative amounts are accepted
Investments == {-1000000, 0, 1000000, 5000000}

\* st.slider("Annual Return (%)", 1.0, 20.0, 7.0) / 100
LAReturns == {30, 70}

\* st.slider("Withdrawal Rate (%)", 2.5, 17.5, 4.0) / 100
LAWithdrawalRates == {40, 100}

\* st.number_input("Future Value of Savings (R)", value=1000000, step=10000):
\* an int with no min_value; 100 is an amount whose withdrawals are a few rand
FutureSavings == {-1000000, 0, 100, 1000000, 5000000}

\* st.slider("Withdrawal Rate (%)", 1.0, 10.0, 4.0) / 100
RCWithdrawalRates == {40, 100}

\* st.slider("Expected Annual Return (%)", 1.0, 20.0, 7.0) / 100
RCReturns == {10, 70}

----------------------------------------------------------------------------
(* Arithmetic.                                                             *)

\* x * (n / RateDen) rounded to the nearest rand; the product is split so
\* that no intermediate value leaves the 32-bit range
MulRate(x, n) ==
    (x \div RateDen) * n + ((x % RateDen) * n + RateDen \div 2) \div RateDen

\* [v] * n
Repeat(v, n) == [i \in 1..n |-> v]

\* range(a, b)
Range(a, b) == [i \in 1..(IF b > a THEN b - a ELSE 0) |-> a + i - 1]

----------------------------------------------------------------------------
(* Living annuity simulation (tab2).                                       *)

\* monthly_income = investment * withdrawal_rate / 12, in whole rand
la_monthly_income(investment, withdrawal_rate) ==
    MulRate(investment, withdrawal_rate) \div 12

\* la_while with the cap tested one year early
la_while_short(balance, year_count) == balance > 0 /\ year_count + 1 < MaxYears

\* while balance > 0 and year_count < 50
la_while(balance, year_count) == balance > 0 /\ year_count < MaxYears

\* la_withdrawal with the monthly amount taken for the annual one
la_withdrawal_monthly(balance, withdrawal_rate) ==
    MulRate(balance, withdrawal_rate) \div 12

\* withdrawal = balance * withdrawal_rate
la_withdrawal(balance, withdrawal_rate) == MulRate(balance, withdrawal_rate)

\* la_balance with the growth applied before the withdrawal is taken
la_balance_grow_first(balance, withdrawal, la_return) ==
    MulRate(balance, RateDen + la_return) - withdrawal

\* la_balance with the withdrawal left in the balance
la_balance_withdrawal_kept(balance, withdrawal, la_return) ==
    MulRate(balance, RateDen + la_return)

\* balance = (balance - withdrawal) * (1 + la_return)
la_balance(balance, withdrawal, la_return) ==
    MulRate(balance - withdrawal, RateDen + la_return)

\* depletion_years.append(la_retirement_age + year_count)
la_year(la_retirement_age, year_count) == la_retirement_age + year_count

\* one pass through the body of the while loop
la_body(s, la_retirement_age, withdrawal_rate, la_return) ==
    LET withdrawal == la_withdrawal(s.balance, withdrawal_rate)
        balance    == la_balance(s.balance, withdrawal, la_return)
    IN  [balance            |-> balance,
         year_count         |-> s.year_count + 1,
         depletion_years    |-> Append(s.depletion_years,
                                       la_year(la_retirement_age, s.year_count)),
         balances           |-> Append(s.balances, balance),
         withdrawal_amounts |-> Append(s.withdrawal_amounts, withdrawal)]

\* the while loop, from the locals s on
RECURSIVE la_loop(_, _, _, _)
la_loop(s, la_retirement_age, withdrawal_rate, la_return) ==
    IF la_while(s.balance, s.year_count)
    THEN la_loop(la_body(s, la_retirement_age, withdrawal_rate, la_return),
                 la_retirement_age, withdrawal_rate, la_return)
    ELSE s

\* la_simulate with the year counter started at 1
la_simulate_from_one(investment, la_retirement_age, withdrawal_rate, la_return) ==
    la_loop([balance |-> investment, year_count |-> 1, depletion_years |-> <<>>,
             balances |-> <<>>, withdrawal_amounts |-> <<>>],
            la_retirement_age, withdrawal_rate, la_return)

\* the simulation block: the locals after the loop
la_simulate(investment, la_retirement_age, withdrawal_rate, la_return) ==
    la_loop([balance |-> investment, year_count |-> 0, depletion_years |-> <<>>,
             balances |-> <<>>, withdrawal_amounts |-> <<>>],
            la_retirement_age, withdrawal_rate, la_return)

\* la_simulate over the sampled widget values, evaluated once
la_simulations ==
    [i \in Investments, a \in RetirementAges, wr \in LAWithdrawalRates,
     r \in LAReturns |-> la_simulate(i, a, wr, r)]

la_simulation(investment, la_retirement_age, withdrawal_rate, la_return) ==
    la_simulations[investment, la_retirement_age, withdrawal_rate, la_return]

\* la_longevity_text with the comparison turned round
la_longevity_text_inverted(balance, year_count, la_retirement_age) ==
    IF balance >= 0
    THEN [tag |-> "DEPLETED", years |-> year_count,
          age |-> la_retirement_age + year_count]
    ELSE [tag |-> "SUSTAINABLE", years |-> year_count]

\* longevity_text: the f-string is held as its tag and the numbers it prints
la_longevity_text(balance, year_count, la_retirement_age) ==
    IF balance <= 0
    THEN [tag |-> "DEPLETED", years |-> year_count,
          age |-> la_retirement_age + year_count]
    ELSE [tag |-> "SUSTAINABLE", years |-> year_count]

\* la_longevity_color with a strict comparison
la_longevity_color_strict(balance) == IF balance < 0 THEN "#FF0000" ELSE "#00FF00"

\* longevity_color
la_longevity_color(balance) == IF balance <= 0 THEN "#FF0000" ELSE "#00FF00"

\* the dict stored in st.session_state.la_data
la_data_of(la_current_age, la_retirement_age, investment, la_return, withdrawal_rate) ==
    LET s == la_simulation(investment, la_retirement_age, withdrawal_rate, la_return)
    IN  [depletion_years    |-> s.depletion_years,
         balances           |-> s.balances,
         withdrawal_amounts |-> s.withdrawal_amounts,
         monthly_income     |-> la_monthly_income(investment, withdrawal_rate),
         longevity_text     |-> la_longevity_text(s.balance, s.year_count,
                                                  la_retirement_age),
         investment         |-> investment,
         la_return          |-> la_return,
         withdrawal_rate    |-> withdrawal_rate,
         la_current_age     |-> la_current_age,
         la_retirement_age  |-> la_retirement_age,
         year_count         |-> s.year_count]

\* what the results block renders: the text and the colour it is drawn in
la_display(investment, la_retirement_age, withdrawal_rate, la_return) ==
    LET s == la_simulation(investment, la_retirement_age, withdrawal_rate, la_return)
    IN  [longevity_text  |-> la_longevity_text(s.balance, s.year_count,
                                               la_retirement_age),
         longevity_color |-> la_longevity_color(s.balance),
         balance         |-> s.balance]

----------------------------------------------------------------------------
(* Retirement calculator simulation (tab1).                                *)

\* rc_annual_withdrawal with the monthly amount taken for the annual one
rc_annual_withdrawal_monthly(future_savings, withdrawal_rate) ==
    MulRate(future_savings, withdrawal_rate) \div 12

\* annual_withdrawal = future_savings * withdrawal_rate
rc_annual_withdrawal(future_savings, withdrawal_rate) ==
    MulRate(future_savings, withdrawal_rate)

\* monthly_withdrawal = annual_withdrawal / 12, in whole rand
rc_monthly_withdrawal(annual_withdrawal) == annual_withdrawal \div 12

\* rc_while with the cap included
rc_while_inclusive(balance, year_count) == balance > 0 /\ year_count <= MaxYears

\* rc_while without the test of the balance
rc_while_cap_only(balance, year_count) == year_count < MaxYears

\* while balance > 0 and year_count < 50
rc_while(balance, year_count) == balance > 0 /\ year_count < MaxYears

\* withdrawal = annual_withdrawal
\* balance = (balance - withdrawal) * (1 + annual_return)
rc_balance(balance, annual_withdrawal, annual_return) ==
    MulRate(balance - annual_withdrawal, RateDen + annual_return)

\* rc_year with the age taken after the year has passed
rc_year_after(retirement_age, year_count) == retirement_age + year_count + 1

\* depletion_years.append(retirement_age + year_count)
rc_year(retirement_age, year_count) == retirement_age + year_count

\* one pass through the body of the while loop
rc_body(s, retirement_age, annual_withdrawal, annual_return) ==
    LET balance == rc_balance(s.balance, annual_withdrawal, annual_return)
    IN  [balance         |-> balance,
         year_count      |-> s.year_count + 1,
         depletion_years |-> Append(s.depletion_years,
                                    rc_year(retirement_age, s.year_count)),
         balances        |-> Append(s.balances, balance)]

\* the while loop, from the locals s on
RECURSIVE rc_loop(_, _, _, _)
rc_loop(s, retirement_age, annual_withdrawal, annual_return) ==
    IF rc_while(s.balance, s.year_count)
    THEN rc_loop(rc_body(s, retirement_age, annual_withdrawal, annual_return),
                 retirement_age, annual_withdrawal, annual_return)
    ELSE s

\* the simulation block: the locals after the loop
rc_simulate(future_savings, retirement_age, withdrawal_rate, annual_return) ==
    rc_loop([balance |-> future_savings, year_count |-> 0,
             depletion_years |-> <<>>, balances |-> <<>>],
            retirement_age,
            rc_annual_withdrawal(future_savings, withdrawal_rate),
            annual_return)

\* rc_simulate over the sampled widget values, evaluated once
rc_simulations ==
    [f \in FutureSavings, a \in RetirementAges, wr \in RCWithdrawalRates,
     r \in RCReturns |-> rc_simulate(f, a, wr, r)]

rc_simulation(future_savings, retirement_age, withdrawal_rate, annual_return) ==
    rc_simulations[future_savings, retirement_age, withdrawal_rate, annual_return]

\* longevity_text: the f-string is held as its tag and the numbers it prints
rc_longevity_text(balance, year_count, retirement_age) ==
    IF balance <= 0
    THEN [tag |-> "DEPLETED", years |-> year_count,
          age |-> retirement_age + year_count]
    ELSE [tag |-> "SUSTAINABLE", years |-> year_count]

\* longevity_color
rc_longevity_color(balance) == IF balance <= 0 THEN "#FF0000" ELSE "#00FF00"

\* the dict stored in st.session_state.rc_data
rc_data_of(current_age, retirement_age, future_savings, withdrawal_rate, annual_return) ==
    LET s == rc_simulation(future_savings, retirement_age, withdrawal_rate,
                           annual_return)
        annual_withdrawal == rc_annual_withdrawal(future_savings, withdrawal_rate)
    IN  [depletion_years    |-> s.depletion_years,
         balances           |-> s.balances,
         annual_withdrawal  |-> annual_withdrawal,
         monthly_withdrawal |-> rc_monthly_withdrawal(annual_withdrawal),
         longevity_text     |-> rc_longevity_text(s.balance, s.year_count,
                                                  retirement_age),
         future_savings     |-> future_savings,
         withdrawal_rate    |-> withdrawal_rate,
         annual_return      |-> annual_return,
         current_age        |-> current_age,
         retirement_age     |-> retirement_age,
         year_count         |-> s.year_count]

\* what the results block renders: the text and the colour it is drawn in
rc_display(future_savings, retirement_age, withdrawal_rate, annual_return) ==
    LET s == rc_simulation(future_savings, retirement_age, withdrawal_rate,
                           annual_return)
    IN  [longevity_text  |-> rc_longevity_text(s.balance, s.year_count,
                                               retirement_age),
         longevity_color |-> rc_longevity_color(s.balance),
         balance         |-> s.balance]

\* rc_pdf_call with one withdrawal too many
rc_pdf_call_extra_year(rc_data) ==
    [client_name     |-> "Client",
     current_age     |-> rc_data.current_age,
     retirement_age  |-> rc_data.retirement_age,
     life_expectancy |-> rc_data.retirement_age + rc_data.year_count,
     future_value    |-> rc_data.future_savings,
     withdrawals     |-> Repeat(rc_data.annual_withdrawal, rc_data.year_count + 1)]

\* the arguments of the call generate_retirement_pdf(...)
rc_pdf_call(rc_data) ==
    [client_name     |-> "Client",
     current_age     |-> rc_data.current_age,
     retirement_age  |-> rc_data.retirement_age,
     life_expectancy |-> rc_data.retirement_age + rc_data.year_count,
     future_value    |-> rc_data.future_savings,
     withdrawals     |-> Repeat(rc_data.annual_withdrawal, rc_data.year_count)]

\* the x values the report plots the withdrawals against
pdf_plot_ages(retirement_age, life_expectancy) ==
    Range(retirement_age, life_expectancy)

----------------------------------------------------------------------------
(* st.session_state and the script.                                        *)

\* the keys of the two widget pairs that guard the tabs
WidgetKeys == {"la_age", "la_retire", "rc_age", "rc_retire"}

\* the values a slider of that key is sampled at
WidgetValues(k) ==
    IF k \in {"la_age", "rc_age"} THEN CurrentAges ELSE RetirementAges

\* a dict with no keys, as in st.session_state.la_data = {}
EmptyDict == <<>>

\* 'key' in st.session_state
HasKey(ss, key) == key \in DOMAIN ss

\* st.session_state.key = value
SetKey(ss, key, value) ==
    [k \in DOMAIN ss \cup {key} |-> IF k = key THEN value ELSE ss[k]]

\* the keys the living annuity report reads from la_data
la_pdf_keys ==
    {"depletion_years", "balances", "withdrawal_amounts", "monthly_income",
     "longevity_text", "investment", "la_return", "withdrawal_rate",
     "la_current_age", "la_retirement_age", "year_count"}

\* the keys the retirement report call reads from rc_data
rc_pdf_keys ==
    {"current_age", "retirement_age", "year_count", "future_savings",
     "annual_withdrawal"}

\* la_age_check_stops with equal ages let through
la_age_check_stops_strict(w) == w.la_retire < w.la_age

\* if la_retirement_age <= la_current_age: st.error(...); st.stop()
la_age_check_stops(w) == w.la_retire <= w.la_age

\* if retirement_age <= current_age: st.error(...); st.stop()
rc_age_check_stops(w) == w.rc_retire <= w.rc_age

\* the try block of the living annuity report: a missing key raises KeyError;
\* fig1 is bound only in a run whose calculate button is pressed, and a run
\* has one pressed button at most, so fig1.savefig raises NameError.  Both are
\* caught by the except clause, which renders the error.
la_pdf_generation(la_data) ==
    IF la_pdf_keys \subseteq DOMAIN la_data
    THEN [read |-> <<la_data>>, error |-> "NameError"]
    ELSE [read |-> <<>>, error |-> "KeyError"]

\* if "la_data" not in st.session_state: st.session_state.la_data = {}
\* if "rc_data" not in st.session_state: st.session_state.rc_data = {}
session_state_management(ss) ==
    LET ss1 == IF HasKey(ss, "la_data") THEN ss ELSE SetKey(ss, "la_data", EmptyDict)
    IN  IF HasKey(ss1, "rc_data") THEN ss1 ELSE SetKey(ss1, "rc_data", EmptyDict)

\* A run of the script is followed through its sections.  Each section maps
\* the run so far, st = [session, run], to the run after it: session is
\* st.session_state, run is the trace of the run (the pressed button, the
\* values of the amount and rate widgets, the buttons rendered, where the run
\* ended, what each block displayed; an optional value is a sequence of
\* length 0 or 1).  A run that has ended passes through the later sections
\* unchanged.
script_start(ss, click, inp) ==
    [session |-> ss,
     run |-> [click |-> click, inputs |-> inp, ended |-> "running",
              rendered |-> {},
              la_shown |-> <<>>, la_pdf |-> <<>>,
              rc_shown |-> <<>>, rc_pdf |-> <<>>]]

\* living_annuity_tab with the withdrawal rate of a stored retirement
\* calculator record used in place of the tab's own slider
living_annuity_tab_shared_rate(st, w, inp) ==
    IF st.run.ended # "running" THEN st
    ELSE IF la_age_check_stops(w) THEN [st EXCEPT !.run.ended = "la_check"]
    ELSE IF st.run.click = "la_btn"
    THEN LET rc == IF HasKey(st.session, "rc_data")
                   THEN st.session["rc_data"] ELSE EmptyDict
             rate == IF "withdrawal_rate" \in DOMAIN rc
                     THEN rc.withdrawal_rate ELSE inp.la_withdrawal_rate
         IN  [session |-> SetKey(st.session, "la_data",
                                 [la_data_of(w.la_age, w.la_retire, inp.investment,
                                             inp.la_return, rate)
                                    EXCEPT !.withdrawal_rate = inp.la_withdrawal_rate]),
              run |-> [st.run EXCEPT
                         !.rendered = @ \cup {"la_btn"},
                         !.la_shown = <<la_display(inp.investment, w.la_retire,
                                                   rate, inp.la_return)>>]]
    ELSE [st EXCEPT !.run.rendered = @ \cup {"la_btn"}]

\* with tab2: the age check, the calculate button and the calculation
living_annuity_tab(st, w, inp) ==
    IF st.run.ended # "running" THEN st
    ELSE IF la_age_check_stops(w) THEN [st EXCEPT !.run.ended = "la_check"]
    ELSE IF st.run.click = "la_btn"
    THEN [session |-> SetKey(st.session, "la_data",
                             la_data_of(w.la_age, w.la_retire, inp.investment,
                                        inp.la_return, inp.la_withdrawal_rate)),
          run |-> [st.run EXCEPT
                     !.rendered = @ \cup {"la_btn"},
                     !.la_shown = <<la_display(inp.investment, w.la_retire,
                                               inp.la_withdrawal_rate,
                                               inp.la_return)>>]]
    ELSE [st EXCEPT !.run.rendered = @ \cup {"la_btn"}]

\* if 'la_data' in st.session_state: the report button and the report
living_annuity_pdf(st) ==
    IF st.run.ended # "running" \/ ~HasKey(st.session, "la_data") THEN st
    ELSE IF st.run.click = "la_pdf_btn"
    THEN [st EXCEPT !.run.rendered = @ \cup {"la_pdf_btn"},
                    !.run.la_pdf = <<la_pdf_generation(st.session["la_data"])>>]
    ELSE [st EXCEPT !.run.rendered = @ \cup {"la_pdf_btn"}]

\* with tab1: the age check, the calculate button and the calculation
retirement_calculator_tab(st, w, inp) ==
    IF st.run.ended # "running" THEN st
    ELSE IF rc_age_check_stops(w) THEN [st EXCEPT !.run.ended = "rc_check"]
    ELSE IF st.run.click = "rc_btn"
    THEN [session |-> SetKey(st.session, "rc_data",
                             rc_data_of(w.rc_age, w.rc_retire, inp.future_savings,
                                        inp.rc_withdrawal_rate, inp.annual_return)),
          run |-> [st.run EXCEPT
                     !.rendered = @ \cup {"rc_btn"},
                     !.rc_shown = <<rc_display(inp.future_savings, w.rc_retire,
                                               inp.rc_withdrawal_rate,
                                               inp.annual_return)>>]]
    ELSE [st EXCEPT !.run.rendered = @ \cup {"rc_btn"}]

\* if 'rc_data' in st.session_state: the report button and the report call.
\* rc_data['current_age'] on a dict without the key raises KeyError outside
\* any try block, which ends the run.  The call renders the Generate PDF
\* Report button, which is not pressed in a run that renders it.
retirement_calculator_pdf(st) ==
    IF st.run.ended # "running" \/ ~HasKey(st.session, "rc_data") THEN st
    ELSE IF st.run.click # "rc_pdf_btn"
    THEN [st EXCEPT !.run.rendered = @ \cup {"rc_pdf_btn"}]
    ELSE IF ~(rc_pdf_keys \subseteq DOMAIN st.session["rc_data"])
    THEN [st EXCEPT !.run.rendered = @ \cup {"rc_pdf_btn"},
                    !.run.ended = "rc_pdf_keyerror"]
    ELSE [st EXCEPT !.run.rendered = @ \cup {"rc_pdf_btn", "pdf_report_btn"},
                    !.run.rc_pdf = <<rc_pdf_call(st.session["rc_data"])>>]

\* the second st.set_page_config of the script raises on the builds that
\* allow one call per run
app_configuration(st, repeatable) ==
    IF st.run.ended # "running" \/ repeatable THEN st
    ELSE [st EXCEPT !.run.ended = "set_page_config"]

\* the session keys are initialised; the imports that follow (utilities,
\* retirement_cashflow_pdf, ...) name no file of the repository and end the run
session_state_section(st) ==
    IF st.run.ended # "running" THEN st
    ELSE [session |-> session_state_management(st.session),
          run |-> [st.run EXCEPT !.ended = "import"]]

\* the defaults of the amount and rate widgets
DefaultInputs ==
    [investment |-> 5000000, la_return |-> 70, la_withdrawal_rate |-> 40,
     future_savings |-> 1000000, rc_withdrawal_rate |-> 40, annual_return |-> 70]

Init ==
    /\ session_state = <<>>
    /\ widgets = [la_age |-> 45, la_retire |-> 65, rc_age |-> 45, rc_retire |-> 65]
    /\ run = [click |-> "none", inputs |-> DefaultInputs, ended |-> "not_run",
              rendered |-> {},
              la_shown |-> <<>>, la_pdf |-> <<>>, rc_shown |-> <<>>, rc_pdf |-> <<>>]
    /\ page_config_repeatable \in BOOLEAN

\* one run of the script with these widget values and this button pressed
RunScript(w, click, inp) ==
    \E st1 \in {living_annuity_tab(script_start(session_state, click, inp), w, inp)} :
    \E st2 \in {living_annuity_pdf(st1)} :
    \E st3 \in {retirement_calculator_tab(st2, w, inp)} :
    \E st4 \in {retirement_calculator_pdf(st3)} :
    \E st5 \in {app_configuration(st4, page_config_repeatable)} :
    \E st6 \in {session_state_section(st5)} :
        /\ session_state' = st6.session
        /\ run' = st6.run
        /\ widgets' = w
        /\ UNCHANGED page_config_repeatable

\* the page is loaded or a slider is moved: the script runs with no button
\* pressed
Rerun ==
    \E k \in WidgetKeys : \E v \in WidgetValues(k) :
        RunScript([widgets EXCEPT ![k] = v], "none", DefaultInputs)

\* the CALCULATE LIVING ANNUITY PROJECTIONS button is pressed
ClickLaBtn ==
    /\ "la_btn" \in run.rendered
    /\ \E i \in Investments, r \in LAReturns, wr \in LAWithdrawalRates :
          RunScript(widgets, "la_btn",
                    [DefaultInputs EXCEPT !.investment = i, !.la_return = r,
                                          !.la_withdrawal_rate = wr])

\* the Generate Living Annuity PDF Report button is pressed
ClickLaPdfBtn ==
    /\ "la_pdf_btn" \in run.rendered
    /\ RunScript(widgets, "la_pdf_btn", DefaultInputs)

\* the CALCULATE RETIREMENT PROJECTIONS button is pressed
ClickRcBtn ==
    /\ "rc_btn" \in run.rendered
    /\ \E f \in FutureSavings, wr \in RCWithdrawalRates, r \in RCReturns :
          RunScript(widgets, "rc_btn",
                    [DefaultInputs EXCEPT !.future_savings = f,
                                          !.rc_withdrawal_rate = wr,
                                          !.annual_return = r])

\* the Generate Retirement Calculator PDF Report button is pressed
ClickRcPdfBtn ==
    /\ "rc_pdf_btn" \in run.rendered
    /\ RunScript(widgets, "rc_pdf_btn", DefaultInputs)

\* the Generate PDF Report button inside generate_retirement_pdf is pressed:
\* in the run it starts, rc_pdf_btn is not pressed, so the call that renders
\* the button is not made and the body under it never runs
ClickPdfReportBtn ==
    /\ "pdf_report_btn" \in run.rendered
    /\ RunScript(widgets, "pdf_report_btn", DefaultInputs)

Next ==
    \/ Rerun
    \/ ClickLaBtn
    \/ ClickLaPdfBtn
    \/ ClickRcBtn
    \/ ClickRcPdfBtn
    \/ ClickPdfReportBtn

Spec == Init /\ [][Next]_vars

----------------------------------------------------------------------------
(* Properties.                                                             *)

\* a living annuity result is stored
LaStored ==
    HasKey(session_state, "la_data") /\ DOMAIN session_state["la_data"] # {}

\* a retirement calculator result is stored
RcStored ==
    HasKey(session_state, "rc_data") /\ DOMAIN session_state["rc_data"] # {}

LaData == session_state["la_data"]

RcData == session_state["rc_data"]

\* the balance a loop ended with: the last recorded one, or the starting
\* amount when no year was simulated
FinalBalance(start, balances) ==
    IF Len(balances) = 0 THEN start ELSE balances[Len(balances)]

\* the balance a simulated year i started with
StartBalance(start, balances, i) == IF i = 1 THEN start ELSE balances[i - 1]

Max(a, b) == IF a >= b THEN a ELSE b

\* C1: in both simulations every recorded balance and every recorded
\* withdrawal is >= 0; the balance of the depleting year is clamped to 0.
C1_NonNegative ==
    /\ LaStored =>
          /\ \A i \in 1..Len(LaData.balances) : LaData.balances[i] >= 0
          /\ \A i \in 1..Len(LaData.withdrawal_amounts) :
                LaData.withdrawal_amounts[i] >= 0
    /\ RcStored =>
          \A i \in 1..Len(RcData.balances) : RcData.balances[i] >= 0
    /\ run.rc_pdf # <<>> =>
          \A i \in 1..Len(run.rc_pdf[1].withdrawals) :
             run.rc_pdf[1].withdrawals[i] >= 0

\* C2: when a simulation ends because the balance reached <= 0, the age in
\* the verdict is the age recorded for the depleting year, the last entry of
\* the recorded ages.
C2_DepletionAgeIsDepletingYear ==
    /\ (LaStored /\ LaData.longevity_text.tag = "DEPLETED"
                 /\ Len(LaData.depletion_years) > 0) =>
          LaData.longevity_text.age =
             LaData.depletion_years[Len(LaData.depletion_years)]
    /\ (RcStored /\ RcData.longevity_text.tag = "DEPLETED"
                 /\ Len(RcData.depletion_years) > 0) =>
          RcData.longevity_text.age =
             RcData.depletion_years[Len(RcData.depletion_years)]

\* the stored living annuity run started from a positive principal with rates
\* under which the balance shrinks: (1 - withdrawal_rate) * (1 + la_return) < 1
LaUnderLoss ==
    /\ LaStored
    /\ LaData.investment > 0
    /\ LaData.withdrawal_rate > 0
    /\ (RateDen - LaData.withdrawal_rate) * (RateDen + LaData.la_return)
          < RateDen * RateDen

\* C3 as stated: a living annuity run under loss ends with a DEPLETED verdict
\* whose age is below retirement age + 50.
C3_LossEndsDepleted ==
    LaUnderLoss =>
       /\ LaData.longevity_text.tag = "DEPLETED"
       /\ LaData.longevity_text.age < LaData.la_retirement_age + MaxYears

\* C3 as amended: a living annuity run under loss never reaches a balance
\* <= 0; it simulates all 50 years and ends with the SUSTAINABLE verdict.
C3_LossEndsSustainable ==
    LaUnderLoss =>
       /\ \A i \in 1..Len(LaData.balances) : LaData.balances[i] > 0
       /\ LaData.year_count = MaxYears
       /\ LaData.longevity_text = [tag |-> "SUSTAINABLE", years |-> MaxYears]

C3_Witness ==
    /\ LaUnderLoss
    /\ Len(LaData.balances) = MaxYears
    /\ LaData.balances[MaxYears] < LaData.investment

\* C4: in every year of the living annuity loop, with b the balance the year
\* starts with, the recorded withdrawal is b * withdrawal_rate, the recorded
\* balance is max(0, (b - withdrawal) * (1 + la_return)), and the age, the
\* withdrawal and the balance of a year sit at the same index.
C4_LaYearStep ==
    LaStored =>
       /\ Len(LaData.withdrawal_amounts) = Len(LaData.balances)
       /\ Len(LaData.depletion_years) = Len(LaData.balances)
       /\ \A i \in 1..Len(LaData.balances) :
             LET b == StartBalance(LaData.investment, LaData.balances, i)
                 w == LaData.withdrawal_amounts[i]
             IN  /\ w = MulRate(b, LaData.withdrawal_rate)
                 /\ LaData.balances[i] =
                       Max(0, MulRate(b - w, RateDen + LaData.la_return))
                 /\ LaData.depletion_years[i] = LaData.la_retirement_age + i - 1

C4_Witness ==
    /\ LaStored
    /\ Len(LaData.balances) >= 2
    /\ LaData.balances[2] # LaData.balances[1]

\* C5: each loop ends and no series holds more than 50 years.
C5_HorizonCap ==
    /\ LaStored =>
          /\ LaData.year_count <= MaxYears
          /\ Len(LaData.depletion_years) <= MaxYears
          /\ Len(LaData.balances) <= MaxYears
          /\ Len(LaData.withdrawal_amounts) <= MaxYears
    /\ RcStored =>
          /\ RcData.year_count <= MaxYears
          /\ Len(RcData.depletion_years) <= MaxYears
          /\ Len(RcData.balances) <= MaxYears

C5_Witness ==
    /\ LaStored /\ Len(LaData.depletion_years) = MaxYears
    /\ RcStored /\ Len(RcData.depletion_years) = MaxYears

\* C6 as stated: the verdict is SUSTAINABLE exactly when no recorded balance
\* is <= 0 and DEPLETED exactly when some recorded balance is <= 0, also for
\* a principal of 0; the verdict text and its colour agree.
C6_VerdictByRecordedBalances ==
    /\ LaStored =>
          /\ LaData.longevity_text.tag = "SUSTAINABLE" <=>
                \A i \in 1..Len(LaData.balances) : LaData.balances[i] > 0
          /\ LaData.longevity_text.tag = "DEPLETED" <=>
                \E i \in 1..Len(LaData.balances) : LaData.balances[i] <= 0
    /\ RcStored =>
          /\ RcData.longevity_text.tag = "SUSTAINABLE" <=>
                \A i \in 1..Len(RcData.balances) : RcData.balances[i] > 0
          /\ RcData.longevity_text.tag = "DEPLETED" <=>
                \E i \in 1..Len(RcData.balances) : RcData.balances[i] <= 0
    /\ \A d \in {run.la_shown, run.rc_shown} : d # <<>> =>
          d[1].longevity_color =
             (IF d[1].longevity_text.tag = "DEPLETED" THEN "#FF0000" ELSE "#00FF00")

\* C6 as amended: the verdict is DEPLETED exactly when some recorded balance
\* is <= 0 or the principal itself is <= 0 (then no year is recorded), and
\* SUSTAINABLE otherwise; the verdict text and its colour agree.
C6_VerdictByFinalBalance ==
    /\ LaStored =>
          /\ LaData.longevity_text.tag \in {"SUSTAINABLE", "DEPLETED"}
          /\ LaData.longevity_text.tag = "DEPLETED" <=>
                \/ \E i \in 1..Len(LaData.balances) : LaData.balances[i] <= 0
                \/ LaData.investment <= 0
    /\ RcStored =>
          /\ RcData.longevity_text.tag \in {"SUSTAINABLE", "DEPLETED"}
          /\ RcData.longevity_text.tag = "DEPLETED" <=>
                \/ \E i \in 1..Len(RcData.balances) : RcData.balances[i] <= 0
                \/ RcData.future_savings <= 0
    /\ run.la_shown # <<>> =>
          /\ run.la_shown[1].longevity_text = LaData.longevity_text
          /\ run.la_shown[1].longevity_color =
                (IF LaData.longevity_text.tag = "DEPLETED"
                 THEN "#FF0000" ELSE "#00FF00")
    /\ run.rc_shown # <<>> =>
          /\ run.rc_shown[1].longevity_text = RcData.longevity_text
          /\ run.rc_shown[1].longevity_color =
                (IF RcData.longevity_text.tag = "DEPLETED"
                 THEN "#FF0000" ELSE "#00FF00")

C6_Witness ==
    /\ run.la_shown # <<>>
    /\ LaData.investment = 0
    /\ LaData.balances = <<>>
    /\ run.la_shown[1].longevity_text.tag = "DEPLETED"
    /\ run.la_shown[1].longevity_color = "#FF0000"

\* the stored living annuity run started from a positive principal and no
\* year's balance fell below the balance the year started with
LaNonDecreasing ==
    /\ LaStored
    /\ LaData.investment > 0
    /\ \A i \in 1..Len(LaData.balances) :
          LaData.balances[i] >= StartBalance(LaData.investment, LaData.balances, i)

\* C7: a living annuity run whose balance never falls from one year to the
\* next records exactly 50 years and ends SUSTAINABLE with no depletion age;
\* a SUSTAINABLE verdict is only produced after exactly 50 simulated years.
C7_SustainableAfterFullHorizon ==
    /\ LaNonDecreasing =>
          /\ Len(LaData.depletion_years) = MaxYears
          /\ Len(LaData.balances) = MaxYears
          /\ LaData.longevity_text.tag = "SUSTAINABLE"
          /\ "age" \notin DOMAIN LaData.longevity_text
    /\ (LaStored /\ LaData.longevity_text.tag = "SUSTAINABLE") =>
          /\ LaData.year_count = MaxYears
          /\ LaData.longevity_text.years = MaxYears
          /\ Len(LaData.balances) = MaxYears
    /\ (RcStored /\ RcData.longevity_text.tag = "SUSTAINABLE") =>
          /\ RcData.year_count = MaxYears
          /\ RcData.longevity_text.years = MaxYears
          /\ Len(RcData.balances) = MaxYears

C7_Witness ==
    /\ LaNonDecreasing
    /\ Len(LaData.balances) = MaxYears
    /\ LaData.balances[MaxYears] > LaData.investment
    /\ LaData.longevity_text.tag = "SUSTAINABLE"

\* the rc_data entry of the session state, if any
RcEntry ==
    IF HasKey(session_state, "rc_data") THEN <<session_state["rc_data"]>> ELSE <<>>

C9_HorizonPositive ==
    /\ RcStored => RcData.year_count > 0
    /\ run.rc_pdf # <<>> =>
          run.rc_pdf[1].life_expectancy > run.rc_pdf[1].retirement_age

\* C10: the withdrawals handed to the retirement report have exactly
\* life_expectancy - retirement_age entries, one for each age from
\* retirement_age to life_expectancy - 1, the ages of the simulated years.
C10_WithdrawalCount ==
    run.rc_pdf # <<>> =>
       LET c == run.rc_pdf[1]
           H == c.life_expectancy - c.retirement_age
       IN  /\ Len(c.withdrawals) = H
           /\ Len(pdf_plot_ages(c.retirement_age, c.life_expectancy)) =
                 Len(c.withdrawals)
           /\ \A i \in 1..Len(c.withdrawals) :
                 /\ pdf_plot_ages(c.retirement_age, c.life_expectancy)[i] =
                       c.retirement_age + i - 1
                 /\ RcData.depletion_years[i] = c.retirement_age + i - 1
           /\ Len(RcData.depletion_years) = Len(c.withdrawals)

C10_Witness ==
    /\ run.rc_pdf # <<>>
    /\ Len(run.rc_pdf[1].withdrawals) >= 2
    /\ run.rc_pdf[1].life_expectancy > run.rc_pdf[1].retirement_age

\* C11 as stated: in the retirement calculator the first year's withdrawal is
\* future value * withdrawal rate and each later year's withdrawal is the
\* year before grown by the withdrawal growth rate of 3%, i.e.
\* withdrawals[0] * 1.03^i.
C11_GrowingWithdrawals ==
    run.rc_pdf # <<>> =>
       LET c == run.rc_pdf[1]
       IN  \A i \in 1..Len(c.withdrawals) :
              c.withdrawals[i] =
                 (IF i = 1
                  THEN MulRate(c.future_value, RcData.withdrawal_rate)
                  ELSE MulRate(c.withdrawals[i - 1], RateDen + 30))

\* C11 as amended: the first year's withdrawal is future value * withdrawal
\* rate and every later year's withdrawal is that same amount (no growth is
\* applied), in the loop and in the series handed to the report.
C11_FlatWithdrawals ==
    /\ RcStored =>
          /\ RcData.annual_withdrawal =
                MulRate(RcData.future_savings, RcData.withdrawal_rate)
          /\ \A i \in 1..Len(RcData.balances) :
                RcData.balances[i] =
                   MulRate(StartBalance(RcData.future_savings, RcData.balances, i)
                              - MulRate(RcData.future_savings,
                                        RcData.withdrawal_rate),
                           RateDen + RcData.annual_return)
    /\ run.rc_pdf # <<>> =>
          \A i \in 1..Len(run.rc_pdf[1].withdrawals) :
             run.rc_pdf[1].withdrawals[i] =
                MulRate(run.rc_pdf[1].future_value, RcData.withdrawal_rate)

C11_Witness ==
    /\ run.rc_pdf # <<>>
    /\ Len(run.rc_pdf[1].withdrawals) >= 2
    /\ run.rc_pdf[1].withdrawals[2] = 40000
    /\ RcData.future_savings = 1000000

\* C12: a year whose withdrawal is below the floor of 10 rand stops the
\* simulation, so no recorded withdrawal is below 10.
C12_WithdrawalFloor ==
    /\ LaStored =>
          \A i \in 1..Len(LaData.withdrawal_amounts) :
             LaData.withdrawal_amounts[i] >= 10
    /\ (RcStored /\ RcData.year_count > 0) => RcData.annual_withdrawal >= 10
    /\ run.rc_pdf # <<>> =>
          \A i \in 1..Len(run.rc_pdf[1].withdrawals) :
             run.rc_pdf[1].withdrawals[i] >= 10

\* C13: a living annuity calculation with investment 5,000,000, withdrawal
\* rate 4% and return 7% records a first-year withdrawal of exactly 200,000
\* and a balance after year 1 of exactly 5,136,000.
C13_ScenarioOne ==
    (/\ LaStored
     /\ LaData.investment = 5000000
     /\ LaData.withdrawal_rate = 40
     /\ LaData.la_return = 70)
    => /\ Len(LaData.withdrawal_amounts) >= 1
       /\ Len(LaData.balances) >= 1
       /\ LaData.withdrawal_amounts[1] = 200000
       /\ LaData.balances[1] = 5136000

C13_Witness ==
    /\ run.click = "la_btn"
    /\ run.la_shown # <<>>
    /\ LaStored
    /\ LaData.investment = 5000000
    /\ LaData.withdrawal_rate = 40
    /\ LaData.la_return = 70

\* C14: in a living annuity calculation with investment > 0 and
\* (1 - withdrawal rate) * (1 + return) < 1, every recorded balance is strictly
\* smaller than the balance of the year before, and the first recorded balance
\* is strictly smaller than the investment.
C14_StrictDecreaseUnderLoss ==
    LaUnderLoss =>
       \A i \in 1..Len(LaData.balances) :
          LaData.balances[i] < StartBalance(LaData.investment, LaData.balances, i)

C14_Witness ==
    /\ LaUnderLoss
    /\ LaData.investment = 1000000
    /\ LaData.withdrawal_rate = 100
    /\ LaData.la_return = 30
    /\ Len(LaData.balances) = MaxYears
    /\ LaData.balances[1] = 927000

\* C15: after a living annuity calculation the stored ages, balances and
\* withdrawals all have the length year_count, the number of simulated years.
C15_EqualLengthSeries ==
    LaStored =>
       /\ Len(LaData.depletion_years) = LaData.year_count
       /\ Len(LaData.balances) = LaData.year_count
       /\ Len(LaData.withdrawal_amounts) = LaData.year_count

C15_Witness ==
    /\ run.click = "la_btn"
    /\ LaStored
    /\ LaData.year_count = MaxYears
    /\ Len(LaData.depletion_years) = MaxYears

\* the inputs a stored living annuity record was computed from, and the
\* inputs a run with widget values w and amounts inp enters
LaInputsOf(d) ==
    <<d.la_current_age, d.la_retirement_age, d.investment, d.la_return,
      d.withdrawal_rate>>

LaInputsEntered(w, inp) ==
    <<w.la_age, w.la_retire, inp.investment, inp.la_return, inp.la_withdrawal_rate>>

\* the same for the retirement calculator
RcInputsOf(d) ==
    <<d.current_age, d.retirement_age, d.future_savings, d.withdrawal_rate,
      d.annual_return>>

RcInputsEntered(w, inp) ==
    <<w.rc_age, w.rc_retire, inp.future_savings, inp.rc_withdrawal_rate,
      inp.annual_return>>

C17_NoYearPastDepletion ==
    /\ LaStored =>
          /\ \A i \in 1..(Len(LaData.balances) - 1) : LaData.balances[i] > 0
          /\ LaData.investment <= 0 =>
                /\ LaData.balances = <<>>
                /\ LaData.depletion_years = <<>>
                /\ LaData.withdrawal_amounts = <<>>
    /\ RcStored =>
          /\ \A i \in 1..(Len(RcData.balances) - 1) : RcData.balances[i] > 0
          /\ RcData.future_savings <= 0 =>
                /\ RcData.balances = <<>>
                /\ RcData.depletion_years = <<>>

\* a retirement calculator run that depleted in its 11th year, next to a
\* living annuity run that started at 0 and recorded nothing
C17_Witness ==
    /\ RcStored
    /\ Len(RcData.balances) = 11
    /\ RcData.balances[10] > 0
    /\ RcData.balances[11] <= 0
    /\ LaStored
    /\ LaData.investment = 0
    /\ LaData.balances = <<>>

\* C18: in both simulations the recorded ages start at the retirement age and
\* rise by exactly 1 per simulated year: the i-th age, counted from 0, is
\* retirement age + i.
C18_ChronologicalAges ==
    /\ LaStored =>
          \A i \in 1..Len(LaData.depletion_years) :
             LaData.depletion_years[i] = LaData.la_retirement_age + (i - 1)
    /\ RcStored =>
          \A i \in 1..Len(RcData.depletion_years) :
             RcData.depletion_years[i] = RcData.retirement_age + (i - 1)

C18_Witness ==
    /\ LaStored
    /\ RcStored
    /\ LaData.la_retirement_age = 60
    /\ RcData.retirement_age = 65
    /\ Len(LaData.depletion_years) = MaxYears
    /\ LaData.depletion_years[MaxYears] = 109
    /\ Len(RcData.depletion_years) = 11
    /\ RcData.depletion_years[11] = 75

\* C19: a report button is rendered only while a complete record of a prior
\* calculation of its mode is stored, and a report step that reads la_data or
\* rc_data finds that complete record: it never runs against an empty or
\* never-computed result.
C19_ReportFollowsCalculation ==
    /\ "la_pdf_btn" \in run.rendered => LaStored
    /\ "rc_pdf_btn" \in run.rendered => RcStored
    /\ run.la_pdf # <<>> =>
          /\ LaStored
          /\ run.la_pdf[1].read = <<LaData>>
    /\ run.click = "rc_pdf_btn" /\ "rc_pdf_btn" \in run.rendered =>
          /\ RcStored
          /\ run.rc_pdf # <<>>
          /\ run.rc_pdf[1].future_value = RcData.future_savings
          /\ Len(run.rc_pdf[1].withdrawals) = RcData.year_count

====
